---- MODULE Spec2Model ----
(***************************************************************************)
(* Model of the Slated plugin entry point (src/src/main.ts): the file-open *)
(* handler, the four commands and the settings tab, together with the      *)
(* task handler, task cache and task line operations they call.            *)
(*                                                                         *)
(* The vault API is asynchronous (main.ts awaits vault.readFile), so every *)
(* operation that touches a document is an asynchronous invocation: the    *)
(* caller starts it, and its continuations run later, one await at a time. *)
(* main.ts never awaits processFile, fileOpenHook or moveIncompleted, so   *)
(* started invocations are kept in `tasks` and their continuations are     *)
(* interleaved freely.                                                     *)
(***************************************************************************)
EXTENDS Integers, Sequences, FiniteSets, TLC

VARIABLES
  docs,      \* the vault: the lines of every document
  lastFile,  \* SlatedPlugin.lastFile
  tasks,     \* the asynchronous invocations that have not run to completion
  cache,     \* TaskCache: the task lines indexed for every document
  settings,  \* SlatedPlugin.settings, the object shared with the task handler
  saved,     \* the settings last handed to saveData
  moment,    \* the week start and locale configured on the global moment
  modal,     \* the dialog opened last
  trig,      \* number of host triggers delivered so far
  trigger    \* the host trigger being delivered, its inputs and the value it returns

vars == <<docs, lastFile, tasks, cache, settings, saved, moment, modal, trig, trigger>>

----------------------------------------------------------------------------
(* Bounds *)

\* host triggers (file-open events, command callbacks, setting edits) in one run
MaxTriggers == 2
\* invocations that may be unfinished at once (one file-open event starts up to 4)
MaxInFlight == 4

----------------------------------------------------------------------------
(* Dates, files and lines *)

\* currentDate(): the reference date, a day number
Today == 2

None == "none"
NoBasename == "nobasename"

Files == {"d1", "d2", "d3", "inbox"}

\* the files the user focuses; "d3" is only ever a destination
OpenFiles == {"d1", "d2", "inbox"}

\* vault.findMomentForDailyNote(file): the day of a daily note, 0 (null) otherwise
findMomentForDailyNote(f) ==
  CASE f = "d1" -> 1
    [] f = "d2" -> 2
    [] f = "d3" -> 3
    [] OTHER -> 0

\* resolveDailyNote(date): the daily note of a day
resolveDailyNote(date) ==
  CASE date = 1 -> "d1"
    [] date = 2 -> "d2"
    [] OTHER -> "d3"

\* Status tokens of the task line markup; "" is a line without a status token
Open == "[ ]"
Done == "[x]"
Skipped == "[-]"
Moved == "[>]"

Line(st, date, rep, body) == [st |-> st, date |-> date, rep |-> rep, body |-> body]

Blank == Line("", 0, 0, <<>>)
HeaderLine(h) == Line("", 0, 0, h)

\* TaskHandler.isLineTask(text): does the line carry task markup
isLineTask(l) == l.st \in {Open, Done, Skipped, Moved}

\* isDue without the status test: a task of any status is due once dated
isDue_m(l, ref) == l.date # 0 /\ l.date <= ref

\* isDue(task, referenceDate)
isDue(l, ref) == l.st = Open /\ l.date # 0 /\ l.date <= ref

\* nextOccurrence for an every-N-days rule: strictly after `from`
nextOccurrence(rep, from) == from + rep

\* String.startsWith('#') on a header given as a sequence of characters
startsWithHash(v) == Len(v) >= 1 /\ v[1] = "#"

----------------------------------------------------------------------------
(* Sequence helpers *)

RECURSIVE SelectIdx(_, _, _)
\* the subsequence of s at the indices that are not in drop
SelectIdx(s, drop, i) ==
  IF i > Len(s) THEN <<>>
  ELSE (IF i \in drop THEN <<>> ELSE <<s[i]>>) \o SelectIdx(s, drop, i + 1)

\* removeLine for a set of indices
removeLines(lines, idx) == SelectIdx(lines, idx, 1)

\* markMoved for a set of indices
markMoved(lines, idx) ==
  [j \in 1..Len(lines) |->
     IF j \in idx THEN [lines[j] EXCEPT !.st = Moved] ELSE lines[j]]

\* locateTasksSection: index of the first line equal to the header, 0 if absent
locateTasksSection(lines, header) ==
  IF \E j \in 1..Len(lines) : lines[j] = HeaderLine(header)
  THEN CHOOSE j \in 1..Len(lines) :
         /\ lines[j] = HeaderLine(header)
         /\ \A k \in 1..(j - 1) : lines[k] # HeaderLine(header)
  ELSE 0

\* insertTask: under the tasks header, creating the header when absent
insertTask(lines, header, blank, t) ==
  LET h == locateTasksSection(lines, header) IN
  IF h = 0
  THEN lines \o <<HeaderLine(header)>> \o (IF blank THEN <<Blank>> ELSE <<>>) \o <<t>>
  ELSE LET p == IF blank /\ h < Len(lines) /\ lines[h + 1] = Blank THEN h + 1 ELSE h
       IN SubSeq(lines, 1, p) \o <<t>> \o SubSeq(lines, p + 1, Len(lines))

RECURSIVE insertTasks(_, _, _, _)
insertTasks(lines, header, blank, ts) ==
  IF ts = <<>> THEN lines
  ELSE insertTasks(insertTask(lines, header, blank, Head(ts)), header, blank, Tail(ts))

----------------------------------------------------------------------------
(* Task handler transitions *)

\* the line a moved or repeated task becomes in its destination
movedLine(l, target) ==
  IF l.rep = 0 THEN Line(Open, target, 0, l.body)
  ELSE Line(Open, nextOccurrence(l.rep, target), l.rep, l.body)

\* the destination document of a task moved with reference date `target`
destinationOf(l, target) == resolveDailyNote(movedLine(l, target).date)

\* indices processFile acts on: due, and not already in their destination
dueIdx(file, snap) ==
  {j \in 1..Len(snap) : isDue(snap[j], Today) /\ destinationOf(snap[j], Today) # file}

\* indices moveIncompleted acts on: every open task
incompleteIdx(snap) == {j \in 1..Len(snap) : snap[j].st = Open}

RECURSIVE linesFor(_, _, _, _, _)
\* the moved lines of snap, in order, whose destination is d
linesFor(snap, idx, target, d, i) ==
  IF i > Len(snap) THEN <<>>
  ELSE (IF i \in idx /\ destinationOf(snap[i], target) = d
        THEN <<movedLine(snap[i], target)>> ELSE <<>>)
       \o linesFor(snap, idx, target, d, i + 1)

RECURSIVE relocated(_, _, _, _)
\* the lines moveIncompleted inserts: the tasks at idx, rescheduled to target
relocated(snap, idx, target, i) ==
  IF i > Len(snap) THEN <<>>
  ELSE (IF i \in idx THEN <<[snap[i] EXCEPT !.date = target]>> ELSE <<>>)
       \o relocated(snap, idx, target, i + 1)

\* the documents after taking the tasks at idx out of the snapshot of file
\* (removed, or marked moved when configured) and inserting ins[d] into every d
applyMoves(file, snap, idx, ins, cfg) ==
  [d \in Files |->
     LET base == IF d = file
                 THEN (IF cfg.preserveMovedTasks THEN markMoved(snap, idx)
                       ELSE removeLines(snap, idx))
                 ELSE docs[d]
     IN insertTasks(base, cfg.tasksHeader, cfg.blankLineAfterHeader, ins[d])]

\* TaskLine.skipOccurence on the line at row: a repeating task advances to its
\* next occurrence, any other open task becomes skipped
skipOccurence(lines, row) ==
  IF row > Len(lines) \/ lines[row].st # Open THEN lines
  ELSE IF lines[row].rep = 0
       THEN [lines EXCEPT ![row].st = Skipped]
       ELSE [lines EXCEPT ![row].date = nextOccurrence(lines[row].rep, lines[row].date)]

\* the task lines of a document, as the cache indexes them
taskLines(lines) == {lines[j] : j \in {k \in 1..Len(lines) : isLineTask(lines[k])}}

----------------------------------------------------------------------------
(* Asynchronous invocations *)

\* An invocation started by trigger number ev as its k-th call: cfg0 is the
\* configuration it observed when it started, snap the lines it has read,
\* failed the scanned tasks whose destination could not be resolved
Invocation(kind, file, target, row, fn, k) ==
  [kind |-> kind, file |-> file, target |-> target, row |-> row, fn |-> fn,
   ev |-> trig + 1, k |-> k, pc |-> "start", snap |-> <<>>, cfg0 |-> settings,
   failed |-> {}]

\* TaskHandler.processFile(file), up to its first await
processFile(file, k) == Invocation("pf", file, Today, 0, "", k)

\* TaskCache.fileOpenHook(file), up to its first await
fileOpenHook(file, k) == Invocation("hook", file, 0, 0, "", k)

\* TaskHandler.moveIncompleted(file, target), up to its first await: nothing
\* is started when the file is the daily note of the target date
moveIncompleted(file, target) ==
  IF findMomentForDailyNote(file) = target THEN <<>>
  ELSE <<Invocation("mi", file, target, 0, "", 1)>>

\* withTaskLine(fn), up to its await of vault.readFile
withTaskLine(view, file, row, fn) ==
  IF view # "markdown" THEN <<>>
  ELSE <<Invocation("wtl", file, 0, row, fn, 1)>>

\* the invocations in flight once invocation i has run to completion
settle(ts, i) == SubSeq(ts, 1, i - 1) \o SubSeq(ts, i + 1, Len(ts))

----------------------------------------------------------------------------
(* Initial state: after onload and the layout-ready cache initialization *)

TasksHeaderDefault == <<"#", "T">>

InitDocs ==
  [d \in Files |->
     CASE d = "d1" -> <<HeaderLine(TasksHeaderDefault), Blank,
                        Line(Open, 1, 0, <<"a">>),
                        Line(Done, 1, 0, <<"b">>),
                        Line(Open, 1, 0, <<"c">>)>>
       [] d = "d2" -> <<Line(Skipped, 2, 0, <<"s">>)>>
       [] d = "d3" -> <<>>
       [] OTHER -> <<Line("", 0, 0, <<"n">>),
                     Line(Open, 0, 0, <<"e">>),
                     Line(Open, 1, 1, <<"r">>)>>]

\* settingsWithDefaults(await loadData())
InitSettings ==
  [tasksHeader |-> TasksHeaderDefault, blankLineAfterHeader |-> TRUE,
   preserveMovedTasks |-> FALSE, weekStart |-> "locale",
   localeOverride |-> "system-default"]

\* tryToConfigureGlobalMoment(app, settings)
tryToConfigureGlobalMoment(s) == [weekStart |-> s.weekStart, locale |-> s.localeOverride]

NoTrigger == [cmd |-> "", checking |-> FALSE, view |-> "", file |-> None,
              row |-> 0, ret |-> ""]

Init ==
  /\ docs = InitDocs
  /\ lastFile = None
  /\ tasks = <<>>
  /\ cache = [d \in Files |-> taskLines(InitDocs[d])]
  /\ settings = InitSettings
  /\ saved = InitSettings
  /\ moment = tryToConfigureGlobalMoment(InitSettings)
  /\ modal = "none"
  /\ trig = 0
  /\ trigger = NoTrigger

----------------------------------------------------------------------------
(* The file-open handler *)

\* the handler without the refresh of the previously focused file
FileOpenCalls_m(file) ==
  (IF lastFile # None THEN <<processFile(lastFile, 1)>> ELSE <<>>)
  \o <<processFile(file, 3), fileOpenHook(file, 4)>>

\* the calls the handler makes, in order, for an event that carries a file
FileOpenCalls(file) ==
  (IF lastFile # None THEN <<processFile(lastFile, 1), fileOpenHook(lastFile, 2)>> ELSE <<>>)
  \o <<processFile(file, 3), fileOpenHook(file, 4)>>

FileOpen(file) ==
  /\ trig < MaxTriggers
  /\ Len(tasks) + 4 <= MaxInFlight
  /\ trig' = trig + 1
  /\ trigger' = [NoTrigger EXCEPT !.cmd = "file-open", !.file = file]
  /\ IF file = None \/ file = NoBasename
     THEN UNCHANGED <<lastFile, tasks>>
     ELSE /\ tasks' = tasks \o FileOpenCalls(file)
          /\ lastFile' = file
  /\ UNCHANGED <<docs, cache, settings, saved, moment, modal>>

----------------------------------------------------------------------------
(* Continuations of processFile and fileOpenHook *)

\* processFile after its read of the document: it holds a snapshot of the
\* lines, and has tried to resolve the destination of every due task
ProcessRead(i) ==
  /\ tasks[i].kind = "pf"
  /\ tasks[i].pc = "start"
  /\ LET snap == docs[tasks[i].file] IN
     \E fail \in SUBSET dueIdx(tasks[i].file, snap) :
       tasks' = [tasks EXCEPT ![i].pc = "scanned", ![i].snap = snap, ![i].failed = fail]
  /\ UNCHANGED <<docs, lastFile, cache, settings, saved, moment, modal, trig>>
  /\ trigger' = NoTrigger

\* processFile moving every due task, whether its destination resolved or not
processWrites_m(t) ==
  LET mv == dueIdx(t.file, t.snap) IN
  IF mv = {} THEN docs
  ELSE applyMoves(t.file, t.snap, mv,
                  [d \in Files |-> linesFor(t.snap, mv, Today, d, 1)], settings)

\* the documents processFile writes: the due tasks whose destination resolved
\* leave the snapshot and enter their destinations; nothing is written when
\* no task moves
processWrites(t) ==
  LET mv == dueIdx(t.file, t.snap) \ t.failed IN
  IF mv = {} THEN docs
  ELSE applyMoves(t.file, t.snap, mv,
                  [d \in Files |-> linesFor(t.snap, mv, Today, d, 1)], settings)

\* processFile applying the transitions to its snapshot and writing back
ProcessWrite(i) ==
  /\ tasks[i].kind = "pf"
  /\ tasks[i].pc = "scanned"
  /\ docs' = processWrites(tasks[i])
  /\ tasks' = settle(tasks, i)
  /\ UNCHANGED <<lastFile, cache, settings, saved, moment, modal, trig>>
  /\ trigger' = NoTrigger

\* fileOpenHook reading the document and replacing its cache entry
HookRefresh(i) ==
  /\ tasks[i].kind = "hook"
  /\ tasks[i].pc = "start"
  /\ cache' = [cache EXCEPT ![tasks[i].file] = taskLines(docs[tasks[i].file])]
  /\ tasks' = settle(tasks, i)
  /\ UNCHANGED <<docs, lastFile, settings, saved, moment, modal, trig>>
  /\ trigger' = NoTrigger

----------------------------------------------------------------------------
(* Commands *)

\* the active leaf: no leaf, a view that is not a Markdown view, or a Markdown
\* view of a file with the cursor on a row
CursorPositions == {<<"inbox", 1>>, <<"d1", 3>>, <<"d2", 1>>}

Leaves ==
  {[view |-> "undefined", file |-> None, row |-> 0],
   [view |-> "other", file |-> "d1", row |-> 0]}
  \cup {[view |-> "markdown", file |-> p[1], row |-> p[2]] : p \in CursorPositions}

\* editor.getLine(editor.getCursor().line)
editorLine(leaf) ==
  IF leaf.file \in Files /\ leaf.row \in 1..Len(docs[leaf.file])
  THEN docs[leaf.file][leaf.row] ELSE Blank

\* taskChecker without the classification of the line under the cursor
taskChecker_m(leaf) ==
  IF leaf.view = "undefined" \/ leaf.view # "markdown" THEN "false" ELSE "true"

\* SlatedPlugin.taskChecker
taskChecker(leaf) ==
  IF leaf.view = "undefined" \/ leaf.view # "markdown" THEN "false"
  ELSE IF isLineTask(editorLine(leaf)) THEN "true" ELSE "false"

TaskCommands == {"task-skip", "task-move-modal", "task-repeat-modal"}

Called(cmd, checking, leaf, ret) ==
  [cmd |-> cmd, checking |-> checking, view |-> leaf.view, file |-> leaf.file,
   row |-> leaf.row, ret |-> ret]

\* checkCallback(true) of the three task commands
TaskCommandCheck(cmd, leaf) ==
  /\ trig < MaxTriggers
  /\ trig' = trig + 1
  /\ trigger' = Called(cmd, TRUE, leaf, taskChecker(leaf))
  /\ UNCHANGED <<docs, lastFile, tasks, cache, settings, saved, moment, modal>>

\* checkCallback(false) of the three task commands
TaskCommandRun(cmd, leaf) ==
  /\ trig < MaxTriggers
  /\ Len(tasks) + 1 <= MaxInFlight
  /\ trig' = trig + 1
  /\ trigger' = Called(cmd, FALSE, leaf, "undefined")
  /\ tasks' = tasks \o withTaskLine(leaf.view, leaf.file, leaf.row, cmd)
  /\ UNCHANGED <<docs, lastFile, cache, settings, saved, moment, modal>>

\* withTaskLine after its read: the task line is built and handed to fn
WithTaskLineRun(i) ==
  /\ tasks[i].kind = "wtl"
  /\ tasks[i].pc = "start"
  /\ IF tasks[i].fn = "task-skip"
     THEN /\ docs' = [docs EXCEPT ![tasks[i].file] = skipOccurence(@, tasks[i].row)]
          /\ UNCHANGED modal
     ELSE /\ modal' = tasks[i].fn
          /\ UNCHANGED docs
  /\ tasks' = settle(tasks, i)
  /\ UNCHANGED <<lastFile, cache, settings, saved, moment, trig>>
  /\ trigger' = NoTrigger

\* the check without the negation of the same-day test
moveIncompletedAvailable_m(leaf) ==
  IF leaf.view = "undefined" THEN "throws"
  ELSE IF leaf.view # "markdown" THEN "undefined"
  ELSE IF findMomentForDailyNote(leaf.file) # 0 /\ findMomentForDailyNote(leaf.file) = Today
       THEN "true" ELSE "false"

\* the value checkCallback(true) of move-incompleted-today returns
moveIncompletedAvailable(leaf) ==
  IF leaf.view = "undefined" THEN "throws"
  ELSE IF leaf.view # "markdown" THEN "undefined"
  ELSE IF findMomentForDailyNote(leaf.file) # 0 /\ findMomentForDailyNote(leaf.file) = Today
       THEN "false" ELSE "true"

\* checkCallback(true) of move-incompleted-today
MoveIncompletedCheck(leaf) ==
  /\ trig < MaxTriggers
  /\ trig' = trig + 1
  /\ trigger' = Called("move-incompleted-today", TRUE, leaf, moveIncompletedAvailable(leaf))
  /\ UNCHANGED <<docs, lastFile, tasks, cache, settings, saved, moment, modal>>

\* the calls checkCallback(false) of move-incompleted-today makes
moveIncompletedCalls(leaf) ==
  IF leaf.view # "markdown" THEN <<>>
  ELSE moveIncompleted(leaf.file, Today)

\* checkCallback(false) of move-incompleted-today
MoveIncompletedRun(leaf) ==
  /\ trig < MaxTriggers
  /\ Len(tasks) + 1 <= MaxInFlight
  /\ trig' = trig + 1
  /\ trigger' = Called("move-incompleted-today", FALSE, leaf,
                       IF leaf.view = "undefined" THEN "throws" ELSE "undefined")
  /\ tasks' = tasks \o moveIncompletedCalls(leaf)
  /\ UNCHANGED <<docs, lastFile, cache, settings, saved, moment, modal>>

\* moveIncompleted after its read of the document
MoveIncompletedRead(i) ==
  /\ tasks[i].kind = "mi"
  /\ tasks[i].pc = "start"
  /\ LET snap == docs[tasks[i].file] IN
     \E fail \in {{}, incompleteIdx(snap)} :
       tasks' = [tasks EXCEPT ![i].pc = "scanned", ![i].snap = snap, ![i].failed = fail]
  /\ UNCHANGED <<docs, lastFile, cache, settings, saved, moment, modal, trig>>
  /\ trigger' = NoTrigger

\* the documents moveIncompleted writes
moveIncompletedWrites(t) ==
  LET mv == incompleteIdx(t.snap) \ t.failed IN
  IF mv = {} THEN docs
  ELSE applyMoves(t.file, t.snap, mv,
                  [d \in Files |-> IF d = resolveDailyNote(t.target)
                                   THEN relocated(t.snap, mv, t.target, 1) ELSE <<>>],
                  settings)

\* moveIncompleted moving the open tasks of its snapshot and writing back
MoveIncompletedWrite(i) ==
  /\ tasks[i].kind = "mi"
  /\ tasks[i].pc = "scanned"
  /\ docs' = moveIncompletedWrites(tasks[i])
  /\ tasks' = settle(tasks, i)
  /\ UNCHANGED <<lastFile, cache, settings, saved, moment, modal, trig>>
  /\ trigger' = NoTrigger

----------------------------------------------------------------------------
(* The settings tab *)

\* the values the user enters; a change handler runs when the value changes
HeaderInputs == {TasksHeaderDefault, <<"#", "X">>, <<"T">>}
WeekStartInputs == {"locale", "monday"}
LocaleInputs == {"system-default", "fr"}

Edited(name, ret) == [NoTrigger EXCEPT !.cmd = name, !.ret = ret]

\* onChange of a toggle or text setting: assign, then saveData
EditSetting(name, new, ret) ==
  /\ trig < MaxTriggers
  /\ trig' = trig + 1
  /\ trigger' = Edited(name, ret)
  /\ settings' = new
  /\ saved' = new
  /\ UNCHANGED <<docs, lastFile, tasks, cache, moment, modal>>

SetBlankLineAfterHeader(value) ==
  /\ value # settings.blankLineAfterHeader
  /\ EditSetting("blankLineAfterHeader", [settings EXCEPT !.blankLineAfterHeader = value], "")

SetPreserveMovedTasks(value) ==
  /\ value # settings.preserveMovedTasks
  /\ EditSetting("preserveMovedTasks", [settings EXCEPT !.preserveMovedTasks = value], "")

\* a Notice is shown for a value that does not start with '#'; the value is
\* stored and saved either way
SetTasksHeader(value) ==
  /\ value # settings.tasksHeader
  /\ EditSetting("tasksHeader", [settings EXCEPT !.tasksHeader = value],
                 IF ~startsWithHash(value) THEN "notice" ELSE "")

\* onChange of a dropdown setting: assign, saveData, reconfigure moment
EditMomentSetting(name, new) ==
  /\ trig < MaxTriggers
  /\ trig' = trig + 1
  /\ trigger' = Edited(name, "")
  /\ settings' = new
  /\ saved' = new
  /\ moment' = tryToConfigureGlobalMoment(new)
  /\ UNCHANGED <<docs, lastFile, tasks, cache, modal>>

SetWeekStart(value) ==
  /\ value # settings.weekStart
  /\ EditMomentSetting("weekStart", [settings EXCEPT !.weekStart = value])

SetLocaleOverride(value) ==
  /\ value # settings.localeOverride
  /\ EditMomentSetting("localeOverride", [settings EXCEPT !.localeOverride = value])

----------------------------------------------------------------------------
(* Specifications *)

\* file-open events and the invocations they start
NextOpen ==
  \/ \E f \in OpenFiles \cup {None, NoBasename} : FileOpen(f)
  \/ \E i \in 1..Len(tasks) : ProcessRead(i)
  \/ \E i \in 1..Len(tasks) : ProcessWrite(i)
  \/ \E i \in 1..Len(tasks) : HookRefresh(i)

\* command callbacks and the invocations they start
NextCommands ==
  \/ \E c \in TaskCommands, l \in Leaves : TaskCommandCheck(c, l)
  \/ \E c \in TaskCommands, l \in Leaves : TaskCommandRun(c, l)
  \/ \E i \in 1..Len(tasks) : WithTaskLineRun(i)
  \/ \E l \in Leaves : MoveIncompletedCheck(l)
  \/ \E l \in Leaves : MoveIncompletedRun(l)
  \/ \E i \in 1..Len(tasks) : MoveIncompletedRead(i)
  \/ \E i \in 1..Len(tasks) : MoveIncompletedWrite(i)

\* edits in the settings tab
NextSettings ==
  \/ \E v \in BOOLEAN : SetBlankLineAfterHeader(v)
  \/ \E v \in BOOLEAN : SetPreserveMovedTasks(v)
  \/ \E v \in HeaderInputs : SetTasksHeader(v)
  \/ \E v \in WeekStartInputs : SetWeekStart(v)
  \/ \E v \in LocaleInputs : SetLocaleOverride(v)

\* every host trigger
Next == NextOpen \/ NextCommands \/ NextSettings

Spec == Init /\ [][Next]_vars

\* runs in which the host delivers file-open events only
SpecOpen == Init /\ [][NextOpen]_vars

\* runs in which the host delivers command callbacks only
SpecCommands == Init /\ [][NextCommands]_vars

\* runs in which the user edits settings while files are opened
SpecSettings == Init /\ [][NextOpen \/ NextSettings]_vars

----------------------------------------------------------------------------
(* Properties *)

Count(lines, l) == Cardinality({j \in 1..Len(lines) : lines[j] = l})

\* the lines of document d that carry task body b and are not moved-away markers
LiveIn(d, b) == Cardinality({j \in 1..Len(docs[d]) : docs[d][j].body = b /\ docs[d][j].st # Moved})

LiveCopies(b) == LiveIn("d1", b) + LiveIn("d2", b) + LiveIn("d3", b) + LiveIn("inbox", b)

\* the completed and skipped task lines of a document, in order
closedLines(lines) == SelectSeq(lines, LAMBDA l : l.st \in {Done, Skipped})

\* this step runs invocation i to completion
Completes(i) == i \in 1..Len(tasks) /\ tasks' = settle(tasks, i)

\* this step delivers the host trigger cmd
Delivers(cmd) == trig' # trig /\ trigger'.cmd = cmd

\* C1: the processFile pass a file-open event starts on a document has run to
\* completion before the fileOpenHook the same event starts on that document
\* reads the document
C1_ProcessBeforeRefresh ==
  [][\A i \in 1..Len(tasks) :
       (tasks[i].kind = "hook" /\ Completes(i)) =>
         ~\E j \in 1..Len(tasks) :
             /\ tasks[j].kind = "pf"
             /\ tasks[j].ev = tasks[i].ev
             /\ tasks[j].k = tasks[i].k - 1]_vars

\* C2: a file-open event that carries a file with a basename starts the
\* processing and cache refresh of the previously focused file, if one was
\* recorded, and then of the event's file, and records the event's file as
\* last focused; an event without a file or basename starts nothing and leaves
\* the last-focused file as it was
C2_FileOpenRefreshes ==
  [][Delivers("file-open") =>
       LET f == trigger'.file
           n == Len(tasks)
       IN IF f = None \/ f = NoBasename
          THEN UNCHANGED <<lastFile, tasks, docs, cache>>
          ELSE /\ lastFile' = f
               /\ UNCHANGED <<docs, cache>>
               /\ SubSeq(tasks', 1, n) = tasks
               /\ IF lastFile = None
                  THEN /\ Len(tasks') = n + 2
                       /\ tasks'[n + 1].kind = "pf" /\ tasks'[n + 1].file = f
                       /\ tasks'[n + 2].kind = "hook" /\ tasks'[n + 2].file = f
                  ELSE /\ Len(tasks') = n + 4
                       /\ tasks'[n + 1].kind = "pf" /\ tasks'[n + 1].file = lastFile
                       /\ tasks'[n + 2].kind = "hook" /\ tasks'[n + 2].file = lastFile
                       /\ tasks'[n + 3].kind = "pf" /\ tasks'[n + 3].file = f
                       /\ tasks'[n + 4].kind = "hook" /\ tasks'[n + 4].file = f]_vars

\* an event has just been delivered for a file other than the last-focused one
C2_Witness ==
  /\ trigger.cmd = "file-open"
  /\ Len(tasks) = 4
  /\ tasks[2].kind = "hook" /\ tasks[4].kind = "hook"
  /\ tasks[2].file # tasks[4].file
  /\ lastFile = tasks[4].file

\* C3: whatever file-open events are delivered, each due, open, non-repeating
\* task exists exactly once outside moved-away markers: it is never duplicated
\* in the destination and never lost from both documents
C3_MovedOnce == \A b \in {<<"a">>, <<"c">>} : LiveCopies(b) = 1

\* C4 as stated: the move-incompleted command on today's daily note changes
\* nothing, and its check reports it unavailable exactly when the active file
\* is today's daily note
C4_Original ==
  [][Delivers("move-incompleted-today") =>
       /\ (trigger'.checking /\ trigger'.ret # "throws") =>
            /\ (trigger'.ret # "true") <=> (findMomentForDailyNote(trigger'.file) = Today)
            /\ UNCHANGED <<docs, tasks, cache, settings, saved, modal, lastFile>>
       /\ (~trigger'.checking /\ findMomentForDailyNote(trigger'.file) = Today) =>
            UNCHANGED <<docs, tasks, cache, settings, saved, modal, lastFile>>]_vars

\* C4 amended: the move-incompleted command on today's daily note changes
\* nothing and starts no move, and its check reports it available exactly when
\* the active view is a Markdown view of a file that is not today's daily note
C4_MoveIncompletedToday ==
  [][/\ Delivers("move-incompleted-today") =>
          /\ trigger'.checking =>
               /\ (trigger'.ret = "true") <=>
                    (trigger'.view = "markdown" /\ findMomentForDailyNote(trigger'.file) # Today)
               /\ UNCHANGED <<docs, tasks, cache, settings, saved, modal, lastFile>>
          /\ (~trigger'.checking /\ findMomentForDailyNote(trigger'.file) = Today) =>
               UNCHANGED <<docs, tasks, cache, settings, saved, modal, lastFile>>
     /\ \A i \in 1..Len(tasks') :
          tasks'[i].kind = "mi" => findMomentForDailyNote(tasks'[i].file) # tasks'[i].target]_vars

\* the command has just been run on today's daily note
C4_Witness ==
  /\ trigger.cmd = "move-incompleted-today"
  /\ ~trigger.checking
  /\ trigger.view = "markdown"
  /\ findMomentForDailyNote(trigger.file) = Today

\* C5: no two processFile passes on the same document are in flight together
C5_OnePassPerDocument ==
  \A i, j \in 1..Len(tasks) :
    (i # j /\ tasks[i].kind = "pf" /\ tasks[j].kind = "pf") => tasks[i].file # tasks[j].file

\* C6: whatever file-open events are delivered, the completed and skipped
\* task lines of every document are those it started with: none is changed,
\* removed, or copied into another document
C6_ClosedUntouched ==
  \A d \in Files : closedLines(docs[d]) = closedLines(InitDocs[d])

\* a pass has moved a task out of the document that holds a completed task
C6_Witness ==
  /\ LiveIn("d1", <<"a">>) = 0
  /\ LiveIn("d2", <<"a">>) >= 1
  /\ Line(Done, 1, 0, <<"b">>) \in taskLines(docs["d1"])

\* C7: a processFile pass that could not resolve the destination of a due
\* task neither inserts that task anywhere nor takes it out of the source,
\* where it stays due for the next scan; it changes nothing at all when no
\* destination resolved; every other due task of the scan is moved: one line
\* leaves the source and one enters the destination
C7_ResolutionFailure ==
  [][\A i \in 1..Len(tasks) :
       (tasks[i].kind = "pf" /\ tasks[i].pc = "scanned" /\ Completes(i)) =>
         LET t == tasks[i]
             due == dueIdx(t.file, t.snap)
             mv == due \ t.failed
         IN IF mv = {} THEN docs' = docs
            ELSE \A j \in due :
                   LET l == t.snap[j]
                       d == destinationOf(l, Today)
                       new == movedLine(l, Today)
                       moved == Cardinality({m \in mv : t.snap[m] = l})
                       aborted == Cardinality({m \in t.failed : t.snap[m] = l})
                   IN /\ Count(docs'[d], new) = Count(docs[d], new) + moved
                      /\ Count(docs'[t.file], l) = Count(t.snap, l) - moved
                      /\ Count(docs'[t.file], l) >= aborted
                      /\ isDue(l, Today)]_vars

\* one due task of a scan was moved while another, whose destination did not
\* resolve, is still due in the source
C7_Witness ==
  /\ Line(Open, 1, 0, <<"c">>) \in taskLines(docs["d1"])
  /\ LiveIn("d1", <<"a">>) = 0
  /\ Line(Open, Today, 0, <<"a">>) \in taskLines(docs["d2"])

\* C8: an invocation of a core operation finishes under the configuration it
\* started with
C8_ConfigSnapshot ==
  [][\A i \in 1..Len(tasks) :
       ((tasks[i].kind \in {"pf", "mi"} \/ tasks[i].fn = "task-skip") /\ Completes(i)) =>
         settings = tasks[i].cfg0]_vars

\* C9: the check of a task command returns true exactly when the active view
\* is a Markdown view and the line under the cursor is a task, and changes
\* nothing
C9_TaskCommandAvailability ==
  [][\A c \in TaskCommands :
       (Delivers(c) /\ trigger'.checking) =>
         /\ (trigger'.ret = "true") <=>
              /\ trigger'.view = "markdown"
              /\ isLineTask(editorLine([file |-> trigger'.file, row |-> trigger'.row]))
         /\ trigger'.ret \in {"true", "false"}
         /\ UNCHANGED <<docs, tasks, cache, settings, saved, modal, lastFile, moment>>]_vars

\* a check on a Markdown view has reported a task command available
C9_Witness ==
  /\ trigger.cmd \in TaskCommands
  /\ trigger.checking
  /\ trigger.view = "markdown"
  /\ trigger.ret = "true"

\* C10: the tasks section header held in the settings, and the one saved,
\* start with '#'
C10_HeaderStartsWithHash ==
  startsWithHash(settings.tasksHeader) /\ startsWithHash(saved.tasksHeader)

====
